---- MODULE Spec2Model ----
(***************************************************************************)
(* Order-processing example: the records of lib/models.py, the utility     *)
(* functions of lib/utils.py and process_order of src/main.py.             *)
(*                                                                         *)
(* Prices and amounts are Python floats (IEEE-754 binary64).  A float is   *)
(* modelled exactly: a sign, a 53-bit significand and a binary exponent,   *)
(* the significand held as an arbitrary-precision natural number (a        *)
(* little-endian sequence of 15-bit limbs), with round-to-nearest,         *)
(* ties-to-even after every operation.  Text is a sequence of one-         *)
(* character strings.                                                      *)
(***************************************************************************)
EXTENDS Integers, Sequences, FiniteSets, TLC

(***************************************************************************)
(* Arbitrary-precision naturals.  <<>> is 0; the last limb is never 0.     *)
(***************************************************************************)
Base == 2^15

RECURSIVE BNorm(_)
BNorm(x) ==
    IF x = <<>> THEN <<>>
    ELSE IF x[Len(x)] = 0 THEN BNorm(SubSeq(x, 1, Len(x) - 1))
    ELSE x

RECURSIVE BFromInt(_)
BFromInt(n) == IF n = 0 THEN <<>> ELSE <<n % Base>> \o BFromInt(n \div Base)

RECURSIVE BAddC(_, _, _)
BAddC(x, y, c) ==
    IF x = <<>> /\ y = <<>> THEN (IF c = 0 THEN <<>> ELSE <<c>>)
    ELSE LET a == IF x = <<>> THEN 0 ELSE Head(x)
             b == IF y = <<>> THEN 0 ELSE Head(y)
             s == a + b + c
         IN  <<s % Base>> \o BAddC(IF x = <<>> THEN <<>> ELSE Tail(x),
                                   IF y = <<>> THEN <<>> ELSE Tail(y),
                                   s \div Base)

BAdd(x, y) == BAddC(x, y, 0)

RECURSIVE BMulSmallC(_, _, _)
BMulSmallC(x, k, c) ==
    IF x = <<>> THEN BFromInt(c)
    ELSE LET s == Head(x) * k + c
         IN  <<s % Base>> \o BMulSmallC(Tail(x), k, s \div Base)

\* x * k for 0 <= k <= Base
BMulSmall(x, k) == IF k = 0 THEN <<>> ELSE BMulSmallC(x, k, 0)

RECURSIVE BMul(_, _)
BMul(x, y) ==
    IF x = <<>> \/ y = <<>> THEN <<>>
    ELSE BAdd(BMulSmall(x, Head(y)), BNorm(<<0>> \o BMul(x, Tail(y))))

RECURSIVE BDivModRaw(_, _)
BDivModRaw(x, d) ==
    IF x = <<>> THEN [q |-> <<>>, r |-> 0]
    ELSE LET hi  == BDivModRaw(Tail(x), d)
             cur == hi.r * Base + Head(x)
         IN  [q |-> <<cur \div d>> \o hi.q, r |-> cur % d]

\* quotient and remainder of x by d, for 1 <= d <= Base
BDivMod(x, d) ==
    LET qr == BDivModRaw(x, d) IN [q |-> BNorm(qr.q), r |-> qr.r]

RECURSIVE IntBitLen(_)
IntBitLen(n) == IF n = 0 THEN 0 ELSE 1 + IntBitLen(n \div 2)

BBitLen(x) == IF x = <<>> THEN 0 ELSE 15 * (Len(x) - 1) + IntBitLen(x[Len(x)])

Zeros(n) == [i \in 1..n |-> 0]

\* x * 2^k
BShl(x, k) ==
    IF x = <<>> THEN <<>>
    ELSE Zeros(k \div 15) \o BMulSmall(x, 2^(k % 15))

\* floor(x / 2^k)
BShr(x, k) ==
    IF k \div 15 >= Len(x) THEN <<>>
    ELSE BDivMod(SubSeq(x, (k \div 15) + 1, Len(x)), 2^(k % 15)).q

\* bit k of x (bit 0 is the least significant)
BBit(x, k) ==
    IF k \div 15 >= Len(x) THEN 0
    ELSE (x[(k \div 15) + 1] \div 2^(k % 15)) % 2

\* the k low bits of x are all 0
BLowZero(x, k) ==
    /\ \A i \in 1..(k \div 15) : i > Len(x) \/ x[i] = 0
    /\ \/ k \div 15 >= Len(x)
       \/ x[(k \div 15) + 1] % 2^(k % 15) = 0

RECURSIVE BLessFrom(_, _, _)
BLessFrom(x, y, i) ==
    IF i = 0 THEN FALSE
    ELSE IF x[i] # y[i] THEN x[i] < y[i]
    ELSE BLessFrom(x, y, i - 1)

\* x < y
BLess(x, y) ==
    IF Len(x) # Len(y) THEN Len(x) < Len(y) ELSE BLessFrom(x, y, Len(x))

BLeq(x, y) == ~BLess(y, x)

(***************************************************************************)
(* binary64.  A float is [s, m, e] with value (-1)^s * m * 2^e, where m is *)
(* 0 (then e = 0) or has exactly 53 bits.  The amounts of this program are *)
(* far from the subnormal and the overflow range, which is not modelled.   *)
(* An int amount (the 0 that sum() starts from, format_currency(100)) is   *)
(* the float of the same value: the two add and format alike.              *)
(***************************************************************************)
MantBits == 53

FZero == [s |-> 0, m |-> <<>>, e |-> 0]

\* The float nearest to (big + f) * 2^e, where 0 <= f < 1 and f # 0 iff
\* sticky: round to nearest, ties to even.
RoundToFloat(big, e, sticky) ==
    LET L == BBitLen(big)
    IN  IF L = 0 THEN FZero
        ELSE IF L <= MantBits
        THEN [s |-> 0, m |-> BShl(big, MantBits - L), e |-> e - (MantBits - L)]
        ELSE LET k    == L - MantBits
                 q    == BShr(big, k)
                 half == BBit(big, k - 1) = 1
                 rest == sticky \/ ~BLowZero(big, k - 1)
                 up   == half /\ (rest \/ BBit(q, 0) = 1)
                 r    == IF up THEN BAdd(q, <<1>>) ELSE q
             IN  IF BBitLen(r) > MantBits
                 THEN [s |-> 0, m |-> BShr(r, 1), e |-> e + k + 1]
                 ELSE [s |-> 0, m |-> r, e |-> e + k]

Min(a, b) == IF a < b THEN a ELSE b

\* x + y for non-negative floats
FAdd(x, y) ==
    IF x.m = <<>> THEN [y EXCEPT !.s = 0]
    ELSE IF y.m = <<>> THEN [x EXCEPT !.s = 0]
    ELSE LET e == Min(x.e, y.e)
         IN  RoundToFloat(BAdd(BShl(x.m, x.e - e), BShl(y.m, y.e - e)), e, FALSE)

\* x * y for non-negative floats
FMul(x, y) == RoundToFloat(BMul(x.m, y.m), x.e + y.e, FALSE)

\* The float a decimal literal denotes: the one nearest to num / den
\* (num an arbitrary-precision natural, 1 <= den <= Base).
FromRatio(num, den) ==
    LET guard == MantBits + 22
        qr    == BDivMod(BShl(num, guard), den)
    IN  RoundToFloat(qr.q, -guard, qr.r # 0)

\* (hi * 10^9 + lo) / den as a float literal
Billion == 10^9

Dec(hi, lo, den) ==
    FromRatio(BAdd(BMul(BFromInt(hi), BFromInt(Billion)), BFromInt(lo)), den)

FNeg(x) == [x EXCEPT !.s = 1 - x.s]

\* the literal 0.08 of process_order
TaxRate == Dec(0, 8, 100)

(***************************************************************************)
(* Text.                                                                   *)
(***************************************************************************)
DigitChars == <<"0", "1", "2", "3", "4", "5", "6", "7", "8", "9">>

UpperChars == <<"A", "B", "C", "D", "E", "F", "G", "H", "I", "J", "K", "L", "M",
                "N", "O", "P", "Q", "R", "S", "T", "U", "V", "W", "X", "Y", "Z">>

LowerChars == <<"a", "b", "c", "d", "e", "f", "g", "h", "i", "j", "k", "l", "m",
                "n", "o", "p", "q", "r", "s", "t", "u", "v", "w", "x", "y", "z">>

RECURSIVE JoinChars(_)
JoinChars(cs) == IF cs = <<>> THEN "" ELSE Head(cs) \o JoinChars(Tail(cs))

\* ch in s
Contains(s, ch) == \E i \in 1..Len(s) : s[i] = ch

\* str.lower()
LowerChar(ch) ==
    IF \E i \in 1..26 : UpperChars[i] = ch
    THEN LowerChars[CHOOSE i \in 1..26 : UpperChars[i] = ch]
    ELSE ch

StrLower(s) == [i \in 1..Len(s) |-> LowerChar(s[i])]

\* str.replace(old, new) for one-character old and new
StrReplace(s, old, new) == [i \in 1..Len(s) |-> IF s[i] = old THEN new ELSE s[i]]

RECURSIVE LStrip(_, _)
LStrip(s, ch) ==
    IF s # <<>> /\ Head(s) = ch THEN LStrip(Tail(s), ch) ELSE s

RECURSIVE RStrip(_, _)
RStrip(s, ch) ==
    IF s # <<>> /\ s[Len(s)] = ch THEN RStrip(SubSeq(s, 1, Len(s) - 1), ch) ELSE s

\* str.strip(ch)
StrStrip(s, ch) == RStrip(LStrip(s, ch), ch)

\* str.split(sep): the pieces between the occurrences of sep, in order
RECURSIVE SplitFrom(_, _, _)
SplitFrom(s, sep, cur) ==
    IF s = <<>> THEN <<cur>>
    ELSE IF Head(s) = sep THEN <<cur>> \o SplitFrom(Tail(s), sep, <<>>)
    ELSE SplitFrom(Tail(s), sep, Append(cur, Head(s)))

StrSplit(s, sep) == SplitFrom(s, sep, <<>>)

(***************************************************************************)
(* lib/utils.py                                                            *)
(***************************************************************************)
\* sum(p.price for p in products): starts from the int 0, adds left to right
RECURSIVE SumPrices(_, _)
SumPrices(products, start) ==
    IF products = <<>> THEN start
    ELSE SumPrices(Tail(products), FAdd(start, Head(products).price))

calculate_total(products) == SumPrices(products, FZero)

\* |x| * 100 cut off after the cents instead of rounded
TruncatedCents(x) ==
    LET p == BMulSmall(x.m, 100)
    IN  IF x.e >= 0 THEN BShl(p, x.e) ELSE BShr(p, -x.e)

\* round(|x| * 100) as a natural number: what the presentation type f with
\* precision 2 prints, correctly rounded from the exact binary value
RoundedCents(x) ==
    LET p == BMulSmall(x.m, 100)
    IN  IF x.e >= 0 THEN BShl(p, x.e)
        ELSE LET k    == -x.e
                 q    == BShr(p, k)
                 half == BBit(p, k - 1) = 1
                 rest == ~BLowZero(p, k - 1)
             IN  IF half /\ (rest \/ BBit(q, 0) = 1) THEN BAdd(q, <<1>>) ELSE q

\* the decimal digits of n, most significant first (none for 0)
RECURSIVE DecDigits(_)
DecDigits(n) ==
    IF n = <<>> THEN <<>>
    ELSE LET qr == BDivMod(n, 10) IN Append(DecDigits(qr.q), DigitChars[qr.r + 1])

RECURSIVE PadLeft(_, _, _)
PadLeft(s, ch, n) == IF Len(s) >= n THEN s ELSE PadLeft(<<ch>> \o s, ch, n)

\* the "," option: a comma before every group of three integer digits
RECURSIVE GroupThousands(_)
GroupThousands(ds) ==
    IF Len(ds) <= 3 THEN ds
    ELSE GroupThousands(SubSeq(ds, 1, Len(ds) - 3))
             \o <<",">> \o SubSeq(ds, Len(ds) - 2, Len(ds))

\* format(amount, ",.2f")
FormatFixed2(amount) ==
    LET ds == PadLeft(DecDigits(RoundedCents(amount)), "0", 3)
        n  == Len(ds)
    IN  (IF amount.s = 1 THEN <<"-">> ELSE <<>>)
            \o GroupThousands(SubSeq(ds, 1, n - 2))
            \o <<".">> \o SubSeq(ds, n - 1, n)

\* without the "," option
format_currency_plain(amount) ==
    LET ds == PadLeft(DecDigits(RoundedCents(amount)), "0", 3)
        n  == Len(ds)
    IN  <<"$">> \o (IF amount.s = 1 THEN <<"-">> ELSE <<>>)
            \o SubSeq(ds, 1, n - 2) \o <<".">> \o SubSeq(ds, n - 1, n)

format_currency(amount) == <<"$">> \o FormatFixed2(amount)

\* a "." anywhere in the string
validate_email_any_dot(email) == Contains(email, "@") /\ Contains(email, ".")

validate_email(email) ==
    /\ Contains(email, "@")
    /\ LET parts == StrSplit(email, "@") IN Contains(parts[Len(parts)], ".")

\* the hyphens stripped before the spaces are replaced
slugify_strip_first(text) == StrReplace(StrStrip(StrLower(text), "-"), " ", "-")

slugify(text) == StrStrip(StrReplace(StrLower(text), " ", "-"), "-")

(***************************************************************************)
(* lib/models.py                                                           *)
(***************************************************************************)
\* User(id, name, email); created_at is filled in by __post_init__
User(id, name, email, now) ==
    [id |-> id, name |-> name, email |-> email, created_at |-> now]

\* Product(id, name, price), description and in_stock at their defaults
Product(id, name, price) ==
    [id |-> id, name |-> name, price |-> price, description |-> <<>>,
     in_stock |-> TRUE]

\* Order(id, user, products), status at its default
Order(id, user, products) ==
    [id |-> id, user |-> user, products |-> products, status |-> "pending"]

\* Order.total: sum(p.price for p in self.products)
RECURSIVE SumFrom(_, _, _)
SumFrom(products, i, acc) ==
    IF i > Len(products) THEN acc
    ELSE SumFrom(products, i + 1, FAdd(acc, products[i].price))

OrderTotal(order) == SumFrom(order.products, 1, FZero)

(***************************************************************************)
(* src/main.py                                                             *)
(***************************************************************************)
TaxOf(subtotal) == FMul(subtotal, TaxRate)

\* the total added up from the amounts as formatted
TotalOfShown(subtotal, tax) ==
    FAdd(FromRatio(RoundedCents(subtotal), 100), FromRatio(RoundedCents(tax), 100))

TotalOf(subtotal, tax) == FAdd(subtotal, tax)

RECURSIVE UniqueNames(_, _)
UniqueNames(products, seen) ==
    IF products = <<>> THEN <<>>
    ELSE IF Head(products).name \in seen THEN UniqueNames(Tail(products), seen)
    ELSE <<Head(products).name>>
             \o UniqueNames(Tail(products), seen \cup {Head(products).name})

\* each name once
ItemNamesUnique(products) == UniqueNames(products, {})

ItemNames(products) == [i \in 1..Len(products) |-> products[i].name]

OrderSummary(user, products, subtotal, tax, total) ==
    [user_id   |-> user.id,
     user_name |-> user.name,
     subtotal  |-> format_currency(subtotal),
     tax       |-> format_currency(tax),
     total     |-> format_currency(total),
     items     |-> ItemNames(products)]

process_order(user, products) ==
    LET subtotal == calculate_total(products)
        tax      == TaxOf(subtotal)
        total    == TotalOf(subtotal, tax)
    IN  OrderSummary(user, products, subtotal, tax, total)

(***************************************************************************)
(* The inputs.  Alice, Widget and Gadget are those of main(); the others   *)
(* add a price of ten cents, a price with a fraction of a cent and a very  *)
(* large whole-dollar price (10,000,000,000,000,002.00), and a user whose  *)
(* name has a space and whose email has no dot after the "@".              *)
(***************************************************************************)
MaxLen == 3
NumCallers == 2
ConcMaxLen == 2
MaxEmailLen == 5
MaxSlugLen == 4

Alice == User(1, <<"A", "l", "i", "c", "e">>,
              <<"a", "l", "i", "c", "e", "@", "e", "x", "a", "m", "p", "l", "e",
                ".", "c", "o", "m">>, 1)
Bob == User(2, <<"B", "o", "b", " ", "R", "a", "y">>,
            <<"b", ".", "r", "a", "y", "@", "l", "o", "c", "a", "l">>, 2)
Users == {Alice, Bob}

Widget == Product(101, <<"W", "i", "d", "g", "e", "t">>, Dec(0, 2999, 100))
Gadget == Product(102, <<"G", "a", "d", "g", "e", "t">>, Dec(0, 4999, 100))
Gizmo == Product(103, <<"G", "i", "z", "m", "o">>, Dec(0, 10, 100))
Sample == Product(104, <<"S", "a", "m", "p", "l", "e">>, Dec(0, 10047, 10000))
Jumbo == Product(105, <<"J", "u", "m", "b", "o">>, Dec(1000000000, 200, 100))
Bulk == Product(106, <<"B", "u", "l", "k">>, Dec(33, 333333333, 100))
Catalog == {Widget, Gadget, Gizmo, Sample}

\* whole-cent prices, among them 333,333,333.33 and a very large one
LargeCatalog == {Widget, Gadget, Gizmo, Bulk, Jumbo}

ProductLists == UNION {[1..n -> Catalog] : n \in 0..MaxLen}

LargeProductLists == UNION {[1..n -> LargeCatalog] : n \in 0..MaxLen}

\* the lists the concurrent callers share: the products of main()
ConcProductLists == UNION {[1..n -> {Widget, Gadget}] : n \in 0..ConcMaxLen}

Statuses == {"pending", "shipped"}

EmailAlphabet == {"u", "@", "."}
SlugAlphabet == {"A", "b", " ", "-", "!"}
Texts(alphabet, n) == UNION {[1..k -> alphabet] : k \in 0..n}

AmountHis == {0, 1000000}
AmountLos == {0, 1, 5, 15, 100, 125, 995, 1005, 2675, 123456, 999995, 1234567}
AmountDens == {1, 10, 100, 1000}
Amounts ==
    LET pos == {Dec(hi, lo, den) : hi \in AmountHis, lo \in AmountLos,
                                   den \in AmountDens}
    IN  pos \cup {FNeg(x) : x \in pos}

(***************************************************************************)
(* State.  user, products and order are the shared objects; pc, op, it,    *)
(* acc, subtotal, tax, total and result are each caller's frame; fn, arg   *)
(* and ret are one call of a utility function on its own.                  *)
(***************************************************************************)
VARIABLES user, products, order, pc, op, it, acc, subtotal, tax, total,
          result, fn, arg, ret

shared == <<user, products, order>>
frames == <<pc, op, it, acc, subtotal, tax, total, result>>
util == <<fn, arg, ret>>
vars == <<user, products, order, pc, op, it, acc, subtotal, tax, total,
          result, fn, arg, ret>>

Callers == DOMAIN pc

NoReturn == [done |-> FALSE]
Returned(v) == [done |-> TRUE, value |-> v]

FramesInit(n) ==
    /\ pc = [c \in 1..n |-> "idle"]
    /\ op = [c \in 1..n |-> "none"]
    /\ it = [c \in 1..n |-> 0]
    /\ acc = [c \in 1..n |-> FZero]
    /\ subtotal = [c \in 1..n |-> FZero]
    /\ tax = [c \in 1..n |-> FZero]
    /\ total = [c \in 1..n |-> FZero]
    /\ result = [c \in 1..n |-> NoReturn]

\* one caller, as in main()
Init ==
    /\ user \in Users
    /\ products \in ProductLists
    /\ order = Order(1, user, products)
    /\ FramesInit(1)
    /\ fn = "none"
    /\ arg = <<>>
    /\ ret = NoReturn

\* a caller enters process_order(user, products); sum() starts from 0
CallProcessOrder(c) ==
    /\ pc[c] = "idle"
    /\ pc' = [pc EXCEPT ![c] = "sum"]
    /\ op' = [op EXCEPT ![c] = "process_order"]
    /\ it' = [it EXCEPT ![c] = 1]
    /\ acc' = [acc EXCEPT ![c] = FZero]
    /\ UNCHANGED <<shared, subtotal, tax, total, result, util>>

\* the prices taken from the end of the list
SumStepFromEnd(c) ==
    /\ pc[c] = "sum"
    /\ it[c] <= Len(products)
    /\ acc' = [acc EXCEPT ![c] =
           FAdd(acc[c], products[Len(products) - it[c] + 1].price)]
    /\ it' = [it EXCEPT ![c] = it[c] + 1]
    /\ UNCHANGED <<shared, pc, op, subtotal, tax, total, result, util>>

\* the prices popped off the shared list
SumStepConsumes(c) ==
    /\ pc[c] = "sum"
    /\ products # <<>>
    /\ acc' = [acc EXCEPT ![c] = FAdd(acc[c], Head(products).price)]
    /\ products' = Tail(products)
    /\ UNCHANGED <<user, order, pc, op, it, subtotal, tax, total, result, util>>

\* calculate_total: sum() takes the next product's price
SumStep(c) ==
    /\ pc[c] = "sum"
    /\ it[c] <= Len(products)
    /\ acc' = [acc EXCEPT ![c] = FAdd(acc[c], products[it[c]].price)]
    /\ it' = [it EXCEPT ![c] = it[c] + 1]
    /\ UNCHANGED <<shared, pc, op, subtotal, tax, total, result, util>>

\* an empty list refused
SumReturnNonEmpty(c) ==
    /\ pc[c] = "sum"
    /\ it[c] > Len(products)
    /\ products # <<>>
    /\ subtotal' = [subtotal EXCEPT ![c] = acc[c]]
    /\ pc' = [pc EXCEPT ![c] = "tax"]
    /\ UNCHANGED <<shared, op, it, acc, tax, total, result, util>>

\* calculate_total returns: subtotal = calculate_total(products)
SumReturn(c) ==
    /\ pc[c] = "sum"
    /\ it[c] > Len(products)
    /\ subtotal' = [subtotal EXCEPT ![c] = acc[c]]
    /\ pc' = [pc EXCEPT ![c] = "tax"]
    /\ UNCHANGED <<shared, op, it, acc, tax, total, result, util>>

\* tax = subtotal * 0.08
ComputeTax(c) ==
    /\ pc[c] = "tax"
    /\ tax' = [tax EXCEPT ![c] = TaxOf(subtotal[c])]
    /\ pc' = [pc EXCEPT ![c] = "total"]
    /\ UNCHANGED <<shared, op, it, acc, subtotal, total, result, util>>

\* total = subtotal + tax
ComputeTotal(c) ==
    /\ pc[c] = "total"
    /\ total' = [total EXCEPT ![c] = TotalOf(subtotal[c], tax[c])]
    /\ pc' = [pc EXCEPT ![c] = "return"]
    /\ UNCHANGED <<shared, op, it, acc, subtotal, tax, result, util>>

\* return {...}
ReturnSummary(c) ==
    /\ pc[c] = "return"
    /\ result' = [result EXCEPT ![c] =
           Returned(OrderSummary(user, products, subtotal[c], tax[c], total[c]))]
    /\ pc' = [pc EXCEPT ![c] = "done"]
    /\ UNCHANGED <<shared, op, it, acc, subtotal, tax, total, util>>

\* a caller runs validate_email on the shared user's email
CallValidateEmail(c) ==
    /\ pc[c] = "idle"
    /\ op' = [op EXCEPT ![c] = "validate_email"]
    /\ result' = [result EXCEPT ![c] = Returned(validate_email(user.email))]
    /\ pc' = [pc EXCEPT ![c] = "done"]
    /\ UNCHANGED <<shared, it, acc, subtotal, tax, total, util>>

\* a caller runs slugify on the shared user's name
CallSlugify(c) ==
    /\ pc[c] = "idle"
    /\ op' = [op EXCEPT ![c] = "slugify"]
    /\ result' = [result EXCEPT ![c] = Returned(slugify(user.name))]
    /\ pc' = [pc EXCEPT ![c] = "done"]
    /\ UNCHANGED <<shared, it, acc, subtotal, tax, total, util>>

\* a status change that also empties the order
SetStatusResets(s) ==
    /\ s # order.status
    /\ order' = [order EXCEPT !.status = s, !.products = <<>>]
    /\ UNCHANGED <<user, products, frames, util>>

\* order.status = s, from outside
SetStatus(s) ==
    /\ s # order.status
    /\ order' = [order EXCEPT !.status = s]
    /\ UNCHANGED <<user, products, frames, util>>

Next ==
    \/ \E c \in Callers : CallProcessOrder(c)
    \/ \E c \in Callers : SumStep(c)
    \/ \E c \in Callers : SumReturn(c)
    \/ \E c \in Callers : ComputeTax(c)
    \/ \E c \in Callers : ComputeTotal(c)
    \/ \E c \in Callers : ReturnSummary(c)
    \/ \E c \in Callers : CallValidateEmail(c)
    \/ \E c \in Callers : CallSlugify(c)
    \/ \E s \in Statuses : SetStatus(s)

Spec == Init /\ [][Next]_vars

\* several callers share the user and the products
ConcInit ==
    /\ user \in Users
    /\ products \in ConcProductLists
    /\ order = Order(1, user, products)
    /\ FramesInit(NumCallers)
    /\ fn = "none"
    /\ arg = <<>>
    /\ ret = NoReturn

ConcSpec == ConcInit /\ [][Next]_vars

\* one caller, the prices whole numbers of cents of any size
LargeInit ==
    /\ user \in Users
    /\ products \in LargeProductLists
    /\ order = Order(1, user, products)
    /\ FramesInit(1)
    /\ fn = "none"
    /\ arg = <<>>
    /\ ret = NoReturn

LargeSpec == LargeInit /\ [][Next]_vars

(***************************************************************************)
(* One call of a utility function on an input of its own.                  *)
(***************************************************************************)
UtilInit ==
    /\ user = Alice
    /\ products = <<>>
    /\ order = Order(1, user, products)
    /\ FramesInit(1)
    /\ \/ fn = "format_currency" /\ arg \in Amounts
       \/ fn = "validate_email" /\ arg \in Texts(EmailAlphabet, MaxEmailLen)
       \/ fn = "slugify" /\ arg \in Texts(SlugAlphabet, MaxSlugLen)
    /\ ret = NoReturn

ApplyFormatCurrency ==
    /\ fn = "format_currency"
    /\ ~ret.done
    /\ ret' = Returned(format_currency(arg))
    /\ UNCHANGED <<shared, frames, fn, arg>>

ApplyValidateEmail ==
    /\ fn = "validate_email"
    /\ ~ret.done
    /\ ret' = Returned(validate_email(arg))
    /\ UNCHANGED <<shared, frames, fn, arg>>

ApplySlugify ==
    /\ fn = "slugify"
    /\ ~ret.done
    /\ ret' = Returned(slugify(arg))
    /\ UNCHANGED <<shared, frames, fn, arg>>

UtilNext == ApplyFormatCurrency \/ ApplyValidateEmail \/ ApplySlugify

UtilSpec == UtilInit /\ [][UtilNext]_vars
(***************************************************************************)
(* Properties.                                                             *)
(***************************************************************************)
\* caller c has returned from process_order
DonePO(c) == pc[c] = "done" /\ op[c] = "process_order"

\* caller c has returned from calculate_total
Summed(c) == op[c] = "process_order" /\ pc[c] \in {"tax", "total", "return", "done"}

\* the arrangements of a sequence
Perms(seq) ==
    {[i \in 1..Len(seq) |-> seq[f[i]]] : f \in Permutations(1..Len(seq))}

\* the number of cents a formatted amount shows: its digits, read in base ten
RECURSIVE ShownCentsFrom(_, _)
ShownCentsFrom(text, n) ==
    IF text = <<>> THEN n
    ELSE IF \E d \in 1..10 : DigitChars[d] = Head(text)
    THEN ShownCentsFrom(Tail(text),
             BAdd(BMulSmall(n, 10),
                  BFromInt((CHOOSE d \in 1..10 : DigitChars[d] = Head(text)) - 1)))
    ELSE ShownCentsFrom(Tail(text), n)

ShownCents(text) == ShownCentsFrom(text, <<>>)

\* the price is what a literal with two decimal places denotes
WholeCents(price) == price = FromRatio(RoundedCents(price), 100)

\* C1: process_order returns subtotal = format_currency(sum of the prices),
\* tax = format_currency(0.08 x the unrounded sum) and total =
\* format_currency(unrounded sum + unrounded tax); 29.99 and 49.99 give
\* "$79.98", "$6.40", "$86.38".  A price of 1.0047 shows that the total is
\* not the sum of the formatted amounts: "$1.00", "$0.08", "$1.09".
C1_Amounts ==
    \A c \in Callers : DonePO(c) =>
        LET s == calculate_total(products)
            t == FMul(s, TaxRate)
            r == result[c].value
        IN  /\ r.subtotal = format_currency(s)
            /\ r.tax = format_currency(t)
            /\ r.total = format_currency(FAdd(s, t))
            /\ products = <<Widget, Gadget>> =>
                   /\ JoinChars(r.subtotal) = "$79.98"
                   /\ JoinChars(r.tax) = "$6.40"
                   /\ JoinChars(r.total) = "$86.38"
            /\ products = <<Sample>> =>
                   /\ JoinChars(r.subtotal) = "$1.00"
                   /\ JoinChars(r.tax) = "$0.08"
                   /\ JoinChars(r.total) = "$1.09"

C1_Witness ==
    \E c \in Callers : DonePO(c) /\ products = <<Widget, Gadget>>

\* C2: the mapping process_order returns has the user's id and name, and
\* items is the list of product names in input order, of the same length,
\* duplicates kept.
C2_Identity ==
    \A c \in Callers : DonePO(c) =>
        LET r == result[c].value
        IN  /\ r.user_id = user.id
            /\ r.user_name = user.name
            /\ Len(r.items) = Len(products)
            /\ \A i \in 1..Len(products) : r.items[i] = products[i].name
            /\ \A p \in Catalog \cup LargeCatalog :
                   Cardinality({i \in 1..Len(r.items) : r.items[i] = p.name})
                       = Cardinality({i \in 1..Len(products) : products[i] = p})

C2_Witness ==
    \E c \in Callers :
        /\ DonePO(c)
        /\ Len(products) = 3
        /\ products[1] = products[3]
        /\ products[1] # products[2]

C7_Empty ==
    \A c \in Callers : (products = <<>> /\ op[c] = "process_order") =>
        /\ pc[c] # "done" =>
               ENABLED (\/ SumStep(c) \/ SumReturn(c) \/ ComputeTax(c)
                        \/ ComputeTotal(c) \/ ReturnSummary(c))
        /\ pc[c] = "done" =>
               /\ JoinChars(result[c].value.subtotal) = "$0.00"
               /\ JoinChars(result[c].value.tax) = "$0.00"
               /\ JoinChars(result[c].value.total) = "$0.00"
               /\ result[c].value.items = <<>>

C7_Witness == \E c \in Callers : DonePO(c) /\ products = <<>>

\* C8: Order.total is the sum of the prices with no tax (calculate_total of
\* the same list; the numeric total of process_order is that plus the 8% tax
\* on it), and a change of the order's status leaves Order.total, the
\* product list, the user and the id as they were.
C8_OrderTotal ==
    /\ [](/\ OrderTotal(order) = calculate_total(order.products)
          /\ \A c \in Callers : Summed(c) => subtotal[c] = OrderTotal(order)
          /\ \A c \in Callers : DonePO(c) =>
                 /\ tax[c] = FMul(OrderTotal(order), TaxRate)
                 /\ total[c] = FAdd(OrderTotal(order), tax[c]))
    /\ [][order'.status # order.status =>
              /\ OrderTotal(order') = OrderTotal(order)
              /\ order'.products = order.products
              /\ order'.user = order.user
              /\ order'.id = order.id]_vars

C8_Witness ==
    /\ order.status # "pending"
    /\ Len(order.products) >= 2
    /\ \E c \in Callers : DonePO(c)

\* C9: the functions change neither their arguments nor shared state: with
\* several callers interleaved on the same user and products, every call
\* returns what it returns when run alone, and the user and the products stay
\* as they were.
C9_Reentrant ==
    /\ [](\A c \in Callers : pc[c] = "done" =>
              /\ op[c] = "process_order" =>
                     result[c].value = process_order(user, products)
              /\ op[c] = "validate_email" =>
                     result[c].value = validate_email(user.email)
              /\ op[c] = "slugify" => result[c].value = slugify(user.name))
    /\ [][user' = user /\ products' = products]_vars

C9_Witness ==
    /\ Cardinality(Callers) >= 2
    /\ \A c \in Callers : DonePO(c)
    /\ Len(products) >= 2

\* C10 as stated: for prices that are whole numbers of cents, the amount in
\* total is the amount in subtotal plus the amount in tax.
C10_Consistent ==
    \A c \in Callers :
        (DonePO(c) /\ \A i \in 1..Len(products) : WholeCents(products[i].price)) =>
            ShownCents(result[c].value.total)
                = BAdd(ShownCents(result[c].value.subtotal),
                       ShownCents(result[c].value.tax))

\* one billion dollars, in cents
SmallOrderCents == BMulSmall(BFromInt(Billion), 100)

\* C10 amended: the same, for at most 100 products and a subtotal below
\* $1,000,000,000.00, where the rounding error of the floating-point amounts
\* stays far below the distance of 8% of a whole number of cents from half
\* a cent.
C10_ConsistentSmall ==
    \A c \in Callers :
        (/\ DonePO(c)
         /\ \A i \in 1..Len(products) : WholeCents(products[i].price)
         /\ Len(products) <= 100
         /\ BLess(ShownCents(result[c].value.subtotal), SmallOrderCents)) =>
            ShownCents(result[c].value.total)
                = BAdd(ShownCents(result[c].value.subtotal),
                       ShownCents(result[c].value.tax))

\* 79.98 with a tax of 6.3984, shown rounded up as 6.40
C10_Witness ==
    \E c \in Callers :
        /\ DonePO(c)
        /\ products = <<Widget, Gadget>>
        /\ \A i \in 1..Len(products) : WholeCents(products[i].price)
        /\ BLess(ShownCents(result[c].value.subtotal), SmallOrderCents)
        /\ ShownCents(result[c].value.tax) = BFromInt(640)

\* the utility call has returned
UtilDone(f) == fn = f /\ ret.done

\* C4: validate_email(email) is true iff email has an "@" and the part after
\* its last "@" has a "."; no "@", or nothing after the last "@", is
\* rejected, and a "." only before the last "@" does not count.
C4_ValidateEmail ==
    UtilDone("validate_email") =>
        LET ats == {i \in 1..Len(arg) : arg[i] = "@"}
        IN  /\ ret.value =
                   /\ ats # {}
                   /\ LET last == CHOOSE i \in ats : \A j \in ats : j <= i
                      IN  \E k \in (last + 1)..Len(arg) : arg[k] = "."
            /\ ats = {} => ret.value = FALSE
            /\ (arg # <<>> /\ arg[Len(arg)] = "@") => ret.value = FALSE
            /\ arg = <<"u", "@", "u", ".", "u">> => ret.value = TRUE

\* a dot before the last "@" only: rejected
C4_Witness ==
    /\ UtilDone("validate_email")
    /\ arg = <<"u", ".", "u", "@", "u">>
    /\ ret.value = FALSE

\* what lowercasing and the space-to-hyphen substitution make of a character
SlugChar(ch) ==
    CASE ch = " " -> "-"
      [] ch = "A" -> "a"
      [] OTHER -> ch

\* C5: slugify(text) is text lowercased, every space replaced by a hyphen,
\* then all leading and trailing hyphens removed; hyphens inside and
\* punctuation are kept.
C5_Slugify ==
    UtilDone("slugify") =>
        LET kept == {i \in 1..Len(arg) : SlugChar(arg[i]) # "-"}
        IN  /\ kept = {} => ret.value = <<>>
            /\ kept # {} =>
                   LET lo == CHOOSE i \in kept : \A j \in kept : i <= j
                       hi == CHOOSE i \in kept : \A j \in kept : j <= i
                   IN  ret.value = [k \in 1..(hi - lo + 1) |-> SlugChar(arg[lo + k - 1])]
            /\ arg = <<" ", "A", " ", "b">> => JoinChars(ret.value) = "a-b"

\* leading and trailing hyphens go, the two inside and the "!" stay
C5_Witness ==
    /\ UtilDone("slugify")
    /\ arg = <<" ", "A", "!", " ">>
    /\ JoinChars(ret.value) = "a!"

IsDigit(ch) == \E d \in 1..10 : DigitChars[d] = ch

\* C6: format_currency(amount) is "$", then the amount (negative or not)
\* with a comma between each group of three integer digits and exactly two
\* fraction digits, the amount rounded to two decimals; 100 gives "$100.00",
\* 1234.56 gives "$1,234.56", 0 gives "$0.00".
C6_FormatCurrency ==
    UtilDone("format_currency") =>
        LET text == ret.value
            body == SubSeq(text, IF arg.s = 1 THEN 3 ELSE 2, Len(text))
            n    == Len(body)
            int  == SubSeq(body, 1, n - 3)
            k    == -arg.e
            cents == ShownCents(body)
            twice == BMulSmall(cents, 2)
        IN  /\ text[1] = "$"
            /\ arg.s = 1 => text[2] = "-"
            /\ n >= 4
            /\ body[n - 2] = "."
            /\ IsDigit(body[n - 1]) /\ IsDigit(body[n])
            \* a comma exactly at every fourth place left of the point
            /\ \A i \in 1..Len(int) :
                   IF (Len(int) - i + 1) % 4 = 0 THEN int[i] = "," ELSE IsDigit(int[i])
            /\ int[1] # ","
            /\ int[1] = "0" => Len(int) = 1
            \* the amount shown is within half a cent of the amount
            /\ IF arg.e >= 0
               THEN cents = BShl(BMulSmall(arg.m, 100), arg.e)
               ELSE /\ BLeq(BShl(twice, k), BAdd(BMulSmall(arg.m, 200), BShl(<<1>>, k)))
                    /\ BLeq(BMulSmall(arg.m, 200), BShl(BAdd(twice, <<1>>), k))
            /\ arg = Dec(0, 100, 1) => JoinChars(text) = "$100.00"
            /\ arg = Dec(0, 123456, 100) => JoinChars(text) = "$1,234.56"
            /\ arg = FZero => JoinChars(text) = "$0.00"

\* a negative amount with two groups of three digits
C6_Witness ==
    /\ UtilDone("format_currency")
    /\ arg = FNeg(Dec(0, 1234567, 1))
    /\ JoinChars(ret.value) = "$-1,234,567.00"
====
